---- MODULE Spec2Model ----
(***************************************************************************)
(* Hebrew book librarian: the scan pipeline of the BookScanner component   *)
(* (src/src/BookScanner.tsx) and of the AI clients it calls                *)
(* (src/unnamed/part_002: testAI, fetchBookData, fetchCoverWithRetry).     *)
(*                                                                         *)
(* JavaScript strings that the code inspects character by character (the   *)
(* OCR text, the AI reply, the thumbnail URL) are sequences of atoms: an   *)
(* atom is one character or an indivisible chunk of characters.  Strings   *)
(* the code only passes along or concatenates are TLA+ strings.            *)
(***************************************************************************)
EXTENDS FiniteSets, Integers, Sequences, TLC

(***************************************************************************)
(* Bounds of the model.                                                    *)
(***************************************************************************)
MaxScans == 2          \* calls of handleScanCover with a file in one run
MaxLines == 3          \* lines of an OCR text given to the line filter alone
MaxReplyLen == 3       \* atoms of an AI reply given to fetchBookData alone
MaxVisionLines == 4    \* lines of the text the vision service finds in an image

(***************************************************************************)
(* Program constants.                                                      *)
(***************************************************************************)
retries == 2           \* default of fetchCoverWithRetry's parameter

Scans == 1..MaxScans

\* JavaScript null for the string-typed state error; no message the code
\* builds equals it.
Null == "null"
\* JavaScript null for the record-typed state bookResult.
NullBook == [null |-> TRUE]
\* JavaScript undefined for the url-typed field coverUri.
Undefined == <<"undefined">>
\* No parsed record is held (before inference and after a failed parse).
NoData == [undefined |-> TRUE]

(***************************************************************************)
(* String functions of the JavaScript runtime, on sequences of atoms.      *)
(***************************************************************************)
IsSpace(c) == c \in {" ", "\n"}

RECURSIVE TrimStart(_)
TrimStart(str) ==
  IF str # <<>> /\ IsSpace(Head(str)) THEN TrimStart(Tail(str)) ELSE str

RECURSIVE TrimEnd(_)
TrimEnd(str) ==
  IF str # <<>> /\ IsSpace(str[Len(str)])
  THEN TrimEnd(SubSeq(str, 1, Len(str) - 1))
  ELSE str

\* String.prototype.trim
Trim(str) == TrimEnd(TrimStart(str))

\* String.prototype.split(sep) for a one-atom separator: "" splits to [""].
RECURSIVE Split(_, _)
Split(str, sep) ==
  IF \A k \in 1..Len(str) : str[k] # sep
  THEN <<str>>
  ELSE LET k == CHOOSE j \in 1..Len(str) :
                  str[j] = sep /\ \A m \in 1..(j - 1) : str[m] # sep
       IN  <<SubSeq(str, 1, k - 1)>> \o Split(SubSeq(str, k + 1, Len(str)), sep)

\* Array.prototype.map(l => l.trim())
MapTrim(arr) == [k \in 1..Len(arr) |-> Trim(arr[k])]

\* Variant: only blank lines are dropped.
KeepNonEmptyLine(l) == Len(l) > 0

\* Array.prototype.filter(l => l.length > 1)
KeepLine(l) == Len(l) > 1

\* BookScanner.tsx 52-54: split on line breaks, trim, drop lines of length <= 1.
lines(text) == SelectSeq(MapTrim(Split(text, "\n")), KeepLine)

StartsWith(str, pat) ==
  Len(str) >= Len(pat) /\ SubSeq(str, 1, Len(pat)) = pat

\* String.prototype.replace(/pat/g, ""): every leftmost non-overlapping
\* occurrence of pat is removed in one pass over the string.
RECURSIVE RemoveAll(_, _)
RemoveAll(str, pat) ==
  IF str = <<>> THEN <<>>
  ELSE IF StartsWith(str, pat)
       THEN RemoveAll(SubSeq(str, Len(pat) + 1, Len(str)), pat)
       ELSE <<Head(str)>> \o RemoveAll(Tail(str), pat)

\* String.prototype.replace("http:", "https:"): the first occurrence only.
RECURSIVE ReplaceFirst(_, _, _)
ReplaceFirst(str, from, to) ==
  IF str = <<>> THEN <<>>
  ELSE IF Head(str) = from THEN <<to>> \o Tail(str)
       ELSE <<Head(str)>> \o ReplaceFirst(Tail(str), from, to)

(***************************************************************************)
(* Replies of the external services, as the clients see them.              *)
(***************************************************************************)
\* Texts of an OCR reply: none, one stray character, and three lines of which
\* one is a stray character and one is padded ("ab\na\n cd ").
Texts ==
  {<<>>, <<"a">>, <<"a", "b", "\n", "a", "\n", " ", "c", "d", " ">>}

\* fetch(OCR_FUNCTION_URL) and response.json(): either of them throws, or the
\* body is a payload { success, text? }; a missing text is the empty text
\* (both are falsy in the test of BookScanner.tsx 50).
OcrReplies ==
  {[kind |-> "throw", message |-> "Failed to fetch"]}
    \cup {[kind |-> "data", success |-> b, text |-> t] : b \in BOOLEAN, t \in Texts}

\* The generateContent request of testAI: fetch or json() throws, or the body
\* carries candidates[0].content.parts[0].text ("" when it carries none).
ProbeReplies ==
  {[kind |-> "throw", message |-> "Failed to fetch"],
   [kind |-> "data", text |-> ""],
   [kind |-> "data", text |-> "AI Heartbeat: OK"]}

\* Atoms of an inference reply: a backtick ("tick"), the word json, a line break, a
\* letter, the JSON text null and three JSON object texts.
Fence == <<"tick", "tick", "tick">>
FenceJson == <<"tick", "tick", "tick", "json">>
Fenced(obj) == FenceJson \o <<"\n", obj, "\n">> \o Fence

\* {"title":"T","authors":["A"]}, {"authors":["A"]}, {"title":"","authors":["A"]}
JsonObjects ==
  [x \in {"{T}", "{N}", "{E}"} |->
     CASE x = "{T}" -> [title |-> "T", authors |-> <<"A">>]
       [] x = "{N}" -> [authors |-> <<"A">>]
       [] x = "{E}" -> [title |-> "", authors |-> <<"A">>]]

\* Sample replies: no text, not JSON, the JSON null, an object with and one
\* without a title, an object in code fences, two objects.
InferTexts ==
  {<<>>, <<"x">>, <<"null">>, <<"{T}">>, <<"{N}">>, Fenced("{T}"),
   <<"{T}", "{T}">>}

\* The generateContent request of fetchBookData.
InferReplies ==
  {[kind |-> "throw", message |-> "Failed to fetch"]}
    \cup {[kind |-> "data", text |-> t] : t \in InferTexts}

\* The volumes request of fetchCoverWithRetry: fetch throws, the status is 429,
\* res.json() throws, or the body carries items[0]...thumbnail (<<>> when it
\* carries none).
Thumbnails == {<<>>, <<"http:", "//books/t">>, <<"https:", "//books/t">>}

CoverReplies ==
  {[kind |-> "throw"], [kind |-> "status429"], [kind |-> "badbody"]}
    \cup {[kind |-> "data", thumbnail |-> t] : t \in Thumbnails}

(***************************************************************************)
(* The clients' computations on a reply.                                   *)
(***************************************************************************)
\* Variant: the test of the older hook (data.text alone).
OcrHasTextIgnoringSuccess(data) == data.text # <<>>

\* BookScanner.tsx 50: data.success && data.text
OcrHasText(data) == data.success /\ data.text # <<>>

\* BookScanner.tsx 74: the message of the catch block.
Catch(message) == "Error: " \o message

\* part_002 18-25: the try block of testAI: fetch or json() throws, or the
\* text of the reply, "No response" when it has none, is returned.
testAITry(reply) ==
  IF reply.kind = "throw"
  THEN [kind |-> "throw", message |-> reply.message]
  ELSE [kind |-> "return",
        value |-> IF reply.text # "" THEN reply.text ELSE "No response"]

\* Variant: no catch block, the exception leaves testAI.
testAIRethrow(completion) == completion

\* part_002 26-28: the catch block of testAI.
testAICatch(completion) ==
  IF completion.kind = "throw"
  THEN [kind |-> "return", value |-> "AI Offline: " \o completion.message]
  ELSE completion

\* part_002 15-29: testAI, which the component awaits for its string.
testAI(reply) == testAICatch(testAITry(reply)).value

\* Variant: only the bare fence marker is stripped.
cleanJsonFenceOnly(resultText) == Trim(RemoveAll(resultText, Fence))

\* part_002 82: strip the fence markers and trim.
cleanJson(resultText) == Trim(RemoveAll(RemoveAll(resultText, FenceJson), Fence))

\* Variant: a lenient parser that reads the first value and ignores the rest.
JSONparseFirstValue(str) ==
  IF str # <<>> /\ str[1] \in DOMAIN JsonObjects
  THEN [ok |-> TRUE, isNull |-> FALSE, value |-> JsonObjects[str[1]]]
  ELSE IF str # <<>> /\ str[1] = "null"
       THEN [ok |-> TRUE, isNull |-> TRUE, value |-> NoData]
       ELSE [ok |-> FALSE, isNull |-> FALSE, value |-> NoData]

\* JSON.parse: the text is one JSON value or parsing throws.
JSONparse(str) ==
  IF Len(str) = 1 /\ str[1] \in DOMAIN JsonObjects
  THEN [ok |-> TRUE, isNull |-> FALSE, value |-> JsonObjects[str[1]]]
  ELSE IF str = <<"null">>
       THEN [ok |-> TRUE, isNull |-> TRUE, value |-> NoData]
       ELSE [ok |-> FALSE, isNull |-> FALSE, value |-> NoData]

\* part_002 68-86, up to the call of fetchCoverWithRetry: the parsed record
\* and the title to look up, or undefined (no text, or an exception caught
\* at line 88: fetch, json(), JSON.parse, or .title of null).
bookDataOf(reply) ==
  IF reply.kind = "throw" \/ reply.text = <<>>
  THEN [found |-> FALSE, bookData |-> NoData]
  ELSE LET parsed == JSONparse(cleanJson(reply.text))
       IN  IF parsed.ok /\ ~parsed.isNull
           THEN [found |-> TRUE, bookData |-> parsed.value]
           ELSE [found |-> FALSE, bookData |-> NoData]

\* Variant: the search operator of the URL is made part of the title.
titleQueryWithOperator(bookData) ==
  IF "title" \in DOMAIN bookData THEN "intitle:" \o bookData.title ELSE ""

\* part_002 86: bookData.title || ""
titleQuery(bookData) ==
  IF "title" \in DOMAIN bookData THEN bookData.title ELSE ""

\* part_002 87: { ...bookData, coverUri }
withCover(bookData, coverUri) ==
  [f \in DOMAIN bookData \cup {"coverUri"} |->
     IF f = "coverUri" THEN coverUri ELSE bookData[f]]

\* part_002 107-108: the thumbnail with its scheme upgraded, or undefined.
thumbnailOf(data) ==
  IF data.thumbnail # <<>>
  THEN ReplaceFirst(data.thumbnail, "http:", "https:")
  ELSE Undefined

\* Variant: the loop of the development log, which throws at its end.
MaxRetriesExceeded == [kind |-> "throw", message |-> "Max retries exceeded"]

\* part_002 113: the loop of fetchCoverWithRetry ran out of attempts.
Exhausted == [kind |-> "return", value |-> Undefined]

\* Variant: the loop without its try/catch, as in the development log.
coverStepWithoutCatch(reply) ==
  CASE reply.kind = "status429" -> [kind |-> "wait"]
    [] reply.kind \in {"throw", "badbody"} ->
         [kind |-> "throw", message |-> "Failed to fetch"]
    [] reply.kind = "data" -> [kind |-> "return", value |-> thumbnailOf(reply)]

\* part_002 96-112: what one response does to the loop of fetchCoverWithRetry.
coverStep(reply) ==
  CASE reply.kind = "status429" -> [kind |-> "wait"]
    [] reply.kind \in {"throw", "badbody"} -> [kind |-> "continue"]
    [] reply.kind = "data" -> [kind |-> "return", value |-> thumbnailOf(reply)]

\* BookScanner.tsx 68: the record shown when fetchBookData returns undefined.
Placeholder ==
  [title |-> "Identification Failed",
   description |-> "AI is online but this book isn't in its index."]

\* BookScanner.tsx 65-69: result ? result : placeholder
shown(result) == IF result.found THEN result.bookData ELSE Placeholder

(***************************************************************************)
(* State.                                                                  *)
(***************************************************************************)
VARIABLES
  ocrLines,      \* useState: the OCR lines shown
  bookResult,    \* useState: the record shown, or NullBook
  isLoading,     \* useState: the in-progress flag
  aiStatus,      \* useState: the liveness string
  error,         \* useState: the error message, or Null
  nStarted,      \* number of scans started; the newest scan is scan nStarted
  pc,            \* pc[s]: where the async function of scan s is suspended
  i,             \* i[s]: loop index of fetchCoverWithRetry in scan s
  bookData,      \* bookData[s]: the record parsed by fetchBookData in scan s
  log,           \* log[s]: what scan s has done so far (observer, see NoLog)
  call,          \* one call of a client function on its own: see NoCall
  hook           \* the state of the hook useBookScanner: see IdleHook

state == <<ocrLines, bookResult, isLoading, aiStatus, error>>
vars == <<ocrLines, bookResult, isLoading, aiStatus, error, nStarted, pc, i,
          bookData, log, call, hook>>

\* The record of a scan.  It is kept while the scan runs and in the state in
\* which the scan ends; the next step of any scan clears it.
NoLog ==
  [stages |-> <<>>,             \* the stages entered, in order
   outstanding |-> {},          \* the operations the scan is waiting for
   testAI |-> 0,                \* calls of testAI
   fetchBookData |-> 0,         \* calls of fetchBookData
   fetchCoverWithRetry |-> 0,   \* calls of fetchCoverWithRetry
   requests |-> 0,              \* network requests issued
   responses |-> <<>>,          \* the cover lookup: the replies received,
   waits |-> 0,                 \*   the backoff waits started,
   result |-> [kind |-> "none"], \*  and how the lookup ended
   extractFailed |-> FALSE,     \* the OCR request threw, or no success, or no text
   refused |-> FALSE,           \* the OCR payload had success = false
   noLines |-> FALSE,           \* the OCR payload was a success without a line
                                \*   (until the lines go to fetchBookData)
   query |-> "",                \* the argument of fetchCoverWithRetry
   decodeFailed |-> FALSE,      \* the image could not be decoded
   inferFailed |-> FALSE,       \* the AI request threw, had no text or no JSON
   inferred |-> NoData,         \* the record parsed from the AI reply
   errored |-> FALSE,           \* the scan called setError with a message
   finished |-> FALSE,          \* the finally block ran
   presented |-> NullBook,      \* what the scan passed to setBookResult
   overlapped |-> FALSE]        \* another scan was running during this one

\* A call of one client function outside any scan: the function, its
\* argument, and its result once it has returned.  The component makes no
\* such call.
NoCall == [fn |-> "none", arg |-> <<>>, returned |-> FALSE, ret |-> <<>>]

\* JavaScript null for the url-typed states coverUri and bookDataUrl.
NullUrl == <<"null">>

\* useBookScanner (src/unnamed/part_001) after its first render: its five
\* states, the debounce timers that are pending (each with the title its
\* callback closed over), where each call of its handleScanCover is
\* suspended, and, as observers, the number of calls of fetchBookData since
\* the last OCR result, the argument of the last call, and the number of
\* timers cleared before they fired.  The component BookScanner does not use
\* the hook.
IdleHook ==
  [title |-> <<>>, coverUri |-> NullUrl, bookDataUrl |-> NullUrl,
   isLoading |-> FALSE, error |-> Null,
   timers |-> {}, started |-> 0, pc |-> [s \in Scans |-> "idle"],
   fetched |-> 0, lastArg |-> <<>>, cancelled |-> 0]

Init ==
  /\ call = NoCall
  /\ hook = IdleHook
  /\ ocrLines = <<>>
  /\ bookResult = NullBook
  /\ isLoading = FALSE
  /\ aiStatus = ""
  /\ error = Null
  /\ nStarted = 0
  /\ pc = [s \in Scans |-> "idle"]
  /\ i = [s \in Scans |-> 0]
  /\ bookData = [s \in Scans |-> NoData]
  /\ log = [s \in Scans |-> NoLog]

\* Scan s records rec; the records of the scans that had ended are cleared.
Log(s, rec) ==
  log' = [t \in Scans |->
            IF t = s THEN rec ELSE IF pc[t] = "done" THEN NoLog ELSE log[t]]

Running(s) == pc[s] \notin {"idle", "done", "hung"}

(***************************************************************************)
(* handleScanCover, BookScanner.tsx 15-78.                                 *)
(***************************************************************************)
Files == {"none", "image"}

\* Variant: the record of the previous scan is not cleared at the start.
handleScanCoverKeepsRecord(file) ==
  IF file = "none"
  THEN UNCHANGED vars
  ELSE /\ nStarted < MaxScans
       /\ LET s == nStarted + 1
          IN  /\ nStarted' = s
              /\ ocrLines' = <<>>
              /\ aiStatus' = ""
              /\ error' = Null
              /\ isLoading' = TRUE
              /\ pc' = [pc EXCEPT ![s] = "reading"]
              /\ log' = [t \in Scans |->
                           IF t = s
                           THEN [NoLog EXCEPT
                                   !.stages = <<"encode">>,
                                   !.outstanding = {"read"},
                                   !.overlapped = \E u \in Scans : Running(u)]
                           ELSE IF pc[t] = "done" THEN NoLog
                           ELSE IF Running(t)
                           THEN [log[t] EXCEPT !.overlapped = TRUE]
                           ELSE log[t]]
              /\ UNCHANGED <<bookResult, i, bookData, call, hook>>

\* Lines 15-39: the call, up to reader.readAsDataURL(file).
handleScanCover(file) ==
  IF file = "none"
  THEN UNCHANGED vars
  ELSE /\ nStarted < MaxScans
       /\ LET s == nStarted + 1
          IN  /\ nStarted' = s
              /\ ocrLines' = <<>>
              /\ bookResult' = NullBook
              /\ aiStatus' = ""
              /\ error' = Null
              /\ isLoading' = TRUE
              /\ pc' = [pc EXCEPT ![s] = "reading"]
              /\ log' = [t \in Scans |->
                           IF t = s
                           THEN [NoLog EXCEPT
                                   !.stages = <<"encode">>,
                                   !.outstanding = {"read"},
                                   !.overlapped = \E u \in Scans : Running(u)]
                           ELSE IF pc[t] = "done" THEN NoLog
                           ELSE IF Running(t)
                           THEN [log[t] EXCEPT !.overlapped = TRUE]
                           ELSE log[t]]
              /\ UNCHANGED <<i, bookData, call, hook>>

\* Lines 73-77: the catch block and the finally block.
Throw(s, message, rec) ==
  /\ error' = Catch(message)
  /\ isLoading' = FALSE
  /\ pc' = [pc EXCEPT ![s] = "done"]
  /\ Log(s, [rec EXCEPT !.outstanding = {}, !.errored = TRUE,
                        !.finished = TRUE])

\* Line 27: reader.onerror rejects the promise.
ReaderOnerror(s) ==
  /\ pc[s] = "reading"
  /\ Throw(s, "Read failed", log[s])
  /\ UNCHANGED <<ocrLines, bookResult, aiStatus, nStarted, i, bookData, call, hook>>

\* Lines 28-38: reader.onload hands the data URL to an Image.
ReaderOnload(s) ==
  /\ pc[s] = "reading"
  /\ pc' = [pc EXCEPT ![s] = "decoding"]
  /\ Log(s, [log[s] EXCEPT !.outstanding = {"decode"}])
  /\ UNCHANGED <<state, nStarted, i, bookData, call, hook>>

\* Lines 30-36 and 42-46: img.onload resolves the promise and the OCR request
\* is sent.
ImgOnload(s) ==
  /\ pc[s] = "decoding"
  /\ pc' = [pc EXCEPT ![s] = "ocr"]
  /\ Log(s, [log[s] EXCEPT !.stages = Append(@, "extract"),
                           !.outstanding = {"ocr"},
                           !.requests = @ + 1])
  /\ UNCHANGED <<state, nStarted, i, bookData, call, hook>>

\* Lines 29-37: the image cannot be decoded.  The Image has no onerror
\* handler, so the promise of line 25 is neither resolved nor rejected.
ImgOnerror(s) ==
  /\ pc[s] = "decoding"
  /\ pc' = [pc EXCEPT ![s] = "hung"]
  /\ Log(s, [log[s] EXCEPT !.outstanding = {}, !.decodeFailed = TRUE])
  /\ UNCHANGED <<state, nStarted, i, bookData, call, hook>>

\* Variant: testAI is not awaited, so fetchBookData sends its request at once.
HasTextWithoutAwait(s, text, rec) ==
  /\ ocrLines' = lines(text)
  /\ aiStatus' = "Checking AI heartbeat..."
  /\ pc' = [pc EXCEPT ![s] = "infer"]
  /\ Log(s, [rec EXCEPT !.stages = @ \o <<"probe", "infer">>,
                        !.outstanding = {"probe", "infer"},
                        !.testAI = @ + 1,
                        !.fetchBookData = @ + 1,
                        !.requests = @ + 2])
  /\ UNCHANGED <<bookResult, isLoading, error>>

\* Lines 52-60: the reply has text; the lines are stored and testAI sends its
\* request.
HasText(s, text, rec) ==
  /\ ocrLines' = lines(text)
  /\ aiStatus' = "Checking AI heartbeat..."
  /\ pc' = [pc EXCEPT ![s] = "probe"]
  /\ Log(s, [rec EXCEPT !.stages = Append(@, "probe"),
                        !.outstanding = {"probe"},
                        !.testAI = @ + 1,
                        !.requests = @ + 1])
  /\ UNCHANGED <<bookResult, isLoading, error>>

\* Variant: the error is set but the scan goes on to the heartbeat.
NoTextFallsThrough(s, rec) ==
  /\ error' = "No text detected."
  /\ aiStatus' = "Checking AI heartbeat..."
  /\ pc' = [pc EXCEPT ![s] = "probe"]
  /\ Log(s, [rec EXCEPT !.stages = Append(@, "probe"),
                        !.outstanding = {"probe"},
                        !.testAI = @ + 1,
                        !.requests = @ + 1,
                        !.errored = TRUE])
  /\ UNCHANGED <<ocrLines, bookResult, isLoading>>

\* Lines 70-72 and 75-77: the reply has no text.
NoText(s, rec) ==
  /\ error' = "No text detected."
  /\ isLoading' = FALSE
  /\ pc' = [pc EXCEPT ![s] = "done"]
  /\ Log(s, [rec EXCEPT !.outstanding = {}, !.errored = TRUE,
                        !.finished = TRUE])
  /\ UNCHANGED <<ocrLines, bookResult, aiStatus>>

\* Lines 42-50: the OCR reply.
OcrResponse(s) ==
  /\ pc[s] = "ocr"
  /\ \E reply \in OcrReplies :
       LET failed == reply.kind = "throw" \/ ~reply.success \/ reply.text = <<>>
           rec == [log[s] EXCEPT
                     !.extractFailed = failed,
                     !.refused = reply.kind = "data" /\ ~reply.success,
                     !.noLines = /\ reply.kind = "data"
                                 /\ reply.success
                                 /\ lines(reply.text) = <<>>]
       IN
       IF reply.kind = "throw"
       THEN /\ Throw(s, reply.message, rec)
            /\ UNCHANGED <<ocrLines, bookResult, aiStatus>>
       ELSE IF OcrHasText(reply)
       THEN HasText(s, reply.text, rec)
       ELSE NoText(s, rec)
  /\ UNCHANGED <<nStarted, i, bookData, call, hook>>

\* Variant: a heartbeat that failed ends the scan with an error.
ProbeResponseGated(s) ==
  /\ pc[s] = "probe"
  /\ \E reply \in ProbeReplies :
       IF reply.kind = "throw"
       THEN /\ Throw(s, reply.message, log[s])
            /\ aiStatus' = "AI Status: " \o testAI(reply)
            /\ UNCHANGED <<ocrLines, bookResult>>
       ELSE /\ aiStatus' = "AI Status: " \o testAI(reply)
            /\ pc' = [pc EXCEPT ![s] = "infer"]
            /\ Log(s, [log[s] EXCEPT !.stages = Append(@, "infer"),
                                     !.outstanding = {"infer"},
                                     !.noLines = FALSE,
                                     !.fetchBookData = @ + 1,
                                     !.requests = @ + 1])
            /\ UNCHANGED <<ocrLines, bookResult, isLoading, error>>
  /\ UNCHANGED <<nStarted, i, bookData, call, hook>>

\* Lines 60-64: testAI returns and fetchBookData sends its request.
ProbeResponse(s) ==
  /\ pc[s] = "probe"
  /\ \E reply \in ProbeReplies :
       aiStatus' = "AI Status: " \o testAI(reply)
  /\ pc' = [pc EXCEPT ![s] = "infer"]
  /\ Log(s, [log[s] EXCEPT !.stages = Append(@, "infer"),
                           !.outstanding = {"infer"},
                           !.noLines = FALSE,
                           !.fetchBookData = @ + 1,
                           !.requests = @ + 1])
  /\ UNCHANGED <<ocrLines, bookResult, isLoading, error, nStarted, i, bookData,
                 call, hook>>

\* part_002 86-91: what fetchBookData returns once fetchCoverWithRetry has
\* returned a value or thrown: the record with the cover, or undefined.
fetchBookDataResult(bd, outcome) ==
  IF outcome.kind = "return"
  THEN [found |-> TRUE, bookData |-> withCover(bd, outcome.value)]
  ELSE [found |-> FALSE, bookData |-> NoData]

\* Variant: the placeholder is presented together with an error message.
FinishAlsoSetsError(s, result, rec) ==
  /\ bookResult' = shown(result)
  /\ error' = IF result.found THEN error ELSE "Identification failed."
  /\ isLoading' = FALSE
  /\ pc' = [pc EXCEPT ![s] = "done"]
  /\ i' = [i EXCEPT ![s] = 0]
  /\ bookData' = [bookData EXCEPT ![s] = NoData]
  /\ Log(s, [rec EXCEPT !.outstanding = {}, !.finished = TRUE,
                        !.errored = ~result.found,
                        !.presented = shown(result)])
  /\ UNCHANGED <<ocrLines, aiStatus>>

\* BookScanner.tsx 64-69 and 75-77: fetchBookData has returned; its locals
\* are gone.
Finish(s, result, rec) ==
  /\ bookResult' = shown(result)
  /\ isLoading' = FALSE
  /\ pc' = [pc EXCEPT ![s] = "done"]
  /\ i' = [i EXCEPT ![s] = 0]
  /\ bookData' = [bookData EXCEPT ![s] = NoData]
  /\ Log(s, [rec EXCEPT !.outstanding = {}, !.finished = TRUE,
                        !.presented = shown(result)])
  /\ UNCHANGED <<ocrLines, aiStatus, error>>

\* part_002 96-98 and 113: the loop test of fetchCoverWithRetry with index k:
\* another request, or the end of the loop.
Attempt(s, k, bd, rec) ==
  IF k < retries
  THEN /\ i' = [i EXCEPT ![s] = k]
       /\ bookData' = [bookData EXCEPT ![s] = bd]
       /\ pc' = [pc EXCEPT ![s] = "cover"]
       /\ Log(s, [rec EXCEPT !.outstanding = {"cover"}, !.requests = @ + 1])
       /\ UNCHANGED state
  ELSE Finish(s, fetchBookDataResult(bd, Exhausted),
              [rec EXCEPT !.result = Exhausted])

\* part_002 78-86: the reply of the inference request.
InferResponse(s) ==
  /\ pc[s] = "infer"
  /\ \E reply \in InferReplies :
       LET r == bookDataOf(reply)
           hard == \/ reply.kind = "throw"
                   \/ reply.text = <<>>
                   \/ ~JSONparse(cleanJson(reply.text)).ok
       IN
       IF r.found
       THEN Attempt(s, 0, r.bookData,
                    [log[s] EXCEPT !.stages = Append(@, "cover"),
                                   !.fetchCoverWithRetry = @ + 1,
                                   !.query = titleQuery(r.bookData),
                                   !.inferred = r.bookData])
       ELSE Finish(s, r, [log[s] EXCEPT !.inferFailed = hard])
  /\ UNCHANGED <<nStarted, call, hook>>

\* part_002 98-111: the reply of one cover request.
CoverResponse(s) ==
  /\ pc[s] = "cover"
  /\ \E reply \in CoverReplies :
       LET step == coverStep(reply)
           rec == [log[s] EXCEPT !.responses = Append(@, reply.kind)]
       IN  CASE step.kind = "wait" ->
                  /\ pc' = [pc EXCEPT ![s] = "backoff"]
                  /\ Log(s, [rec EXCEPT !.outstanding = {"backoff"},
                                        !.waits = @ + 1])
                  /\ UNCHANGED <<state, i, bookData>>
             [] step.kind = "continue" ->
                  Attempt(s, i[s] + 1, bookData[s], rec)
             [] step.kind \in {"return", "throw"} ->
                  Finish(s, fetchBookDataResult(bookData[s], step),
                         [rec EXCEPT !.result = step])
  /\ UNCHANGED <<nStarted, call, hook>>

\* part_002 102-103: the one-second timer fires and the loop continues.
BackoffDone(s) ==
  /\ pc[s] = "backoff"
  /\ Attempt(s, i[s] + 1, bookData[s], log[s])
  /\ UNCHANGED <<nStarted, call, hook>>

Step(s) ==
  \/ ReaderOnerror(s)
  \/ ReaderOnload(s)
  \/ ImgOnload(s)
  \/ ImgOnerror(s)
  \/ OcrResponse(s)
  \/ ProbeResponse(s)
  \/ InferResponse(s)
  \/ CoverResponse(s)
  \/ BackoffDone(s)

Next ==
  \/ \E file \in Files : handleScanCover(file)
  \/ \E s \in Scans : ReaderOnerror(s)
  \/ \E s \in Scans : ReaderOnload(s)
  \/ \E s \in Scans : ImgOnload(s)
  \/ \E s \in Scans : ImgOnerror(s)
  \/ \E s \in Scans : OcrResponse(s)
  \/ \E s \in Scans : ProbeResponse(s)
  \/ \E s \in Scans : InferResponse(s)
  \/ \E s \in Scans : CoverResponse(s)
  \/ \E s \in Scans : BackoffDone(s)

Spec == Init /\ [][Next]_vars

\* Every file read, image decode, network request and timer a scan waits for
\* completes; the user is not obliged to start a scan.
FairSpec == Spec /\ \A s \in Scans : WF_vars(Step(s))

(***************************************************************************)
(* The client functions on their own: one call of the line filter, of       *)
(* fetchBookData up to its cover lookup, or of testAI, on any input of a    *)
(* bounded set.                                                             *)
(***************************************************************************)
\* Lines of an OCR text: blank, one character, and longer, with and without
\* padding.
LineSamples ==
  {<<>>, <<" ">>, <<"a">>, <<" ", "a", " ">>, <<"a", "b">>,
   <<" ", "a", "b", " ">>, <<"b", "a">>, <<"a", " ", "b">>}

\* Array.prototype.join("\n")
RECURSIVE Join(_)
Join(arr) ==
  IF Len(arr) = 1 THEN arr[1]
  ELSE arr[1] \o <<"\n">> \o Join(Tail(arr))

\* data.text: up to MaxLines of the sample lines, separated by line breaks.
OcrTexts ==
  {Join(arr) : arr \in UNION {[1..n -> LineSamples] : n \in 1..MaxLines}}

SeqsUpTo(S, n) == UNION {[1..m -> S] : m \in 0..n}

\* resultText: every text of up to MaxReplyLen atoms, and every JSON object
\* in code fences.
ReplyAtoms == {"tick", "json", "\n", "x", "null", "{T}", "{N}"}

ReplyTexts ==
  SeqsUpTo(ReplyAtoms, MaxReplyLen) \cup {Fenced(J) : J \in DOMAIN JsonObjects}

\* The outcomes of the request of testAI: fetch rejects, response.json()
\* rejects, the body has no candidate text, the body has text.
ProbeOutcomes ==
  ProbeReplies \cup {[kind |-> "throw", message |-> "Unexpected token"]}

Calls ==
  {[NoCall EXCEPT !.fn = "lines", !.arg = t] : t \in OcrTexts}
    \cup {[NoCall EXCEPT !.fn = "fetchBookData",
                         !.arg = [kind |-> "data", text |-> t]] :
            t \in ReplyTexts}
    \cup {[NoCall EXCEPT !.fn = "fetchBookData",
                         !.arg = [kind |-> "throw", message |-> "Failed to fetch"]]}
    \cup {[NoCall EXCEPT !.fn = "testAI", !.arg = r] : r \in ProbeOutcomes}

(***************************************************************************)
(* The OCR cloud function (src/unnamed/part_003): ocrHandler is called with *)
(* a request and answers with a response; what the vision service would    *)
(* say about the image is part of the call.                                *)
(***************************************************************************)
\* Array.prototype.join(sep); the empty array joins to "".
RECURSIVE JoinWith(_, _)
JoinWith(arr, sep) ==
  IF arr = <<>> THEN <<>>
  ELSE IF Len(arr) = 1 THEN arr[1]
  ELSE arr[1] \o <<sep>> \o JoinWith(Tail(arr), sep)

\* Array.prototype.slice(0, n)
FirstN(arr, n) == SubSeq(arr, 1, IF Len(arr) < n THEN Len(arr) ELSE n)

\* part_003 29: line => line.trim().length > 1
LongLine(line) == Len(Trim(line)) > 1

\* Variant: the old code of part_003 55, which returns all the text, trimmed.
cleanupAllText(text) == Trim(text)

\* part_003 28-33: the first three long lines, joined by spaces, trimmed.
cleanup(text) ==
  Trim(JoinWith(FirstN(SelectSeq(Split(text, "\n"), LongLine), 3), " "))

\* part_003 16-34: performOcr.  annotateImage rejects, or finds no text, or
\* finds text.
performOcr(base64Image, vision) ==
  CASE vision.kind = "throw" -> [kind |-> "throw", message |-> vision.message]
    [] vision.kind = "none" -> [kind |-> "return", value |-> <<>>]
    [] vision.kind = "text" ->
         IF vision.text = <<>>
         THEN [kind |-> "return", value |-> <<>>]
         ELSE [kind |-> "return", value |-> cleanup(vision.text)]

\* Atoms of the image property: the data-URL prefix, a base64 character, a
\* padding character and a character outside the base64 alphabet.
DataUrlPrefix == "data:image/png;base64,"

\* part_003 68: replace(/^data:image\/(png|jpeg|jpg);base64,/, '')
stripPrefix(image) ==
  IF image # <<>> /\ Head(image) = DataUrlPrefix THEN Tail(image) ELSE image

\* Variant: every non-empty string passes the format test.
AnyNonEmpty(str) == str # <<>>

\* part_003 75: /^[A-Za-z0-9+/]+={0,2}$/.test
IsBase64(str) ==
  \E n \in 1..Len(str) :
    /\ \A k \in 1..n : str[k] = "A"
    /\ Len(str) - n <= 2
    /\ \A k \in (n + 1)..Len(str) : str[k] = "="

\* part_003 62-80: validateRequest.  The body is missing, or has no image
\* property, or an image that is not a string, or an image string.
validateRequest(body) ==
  IF \/ body.kind \in {"none", "noimage"}
     \/ body.kind = "image" /\ body.image = <<>>
  THEN [kind |-> "throw",
        message |-> "Invalid request body. Missing \"image\" property."]
  ELSE IF body.kind = "nonstring"
  THEN [kind |-> "throw", message |-> "body.image.replace is not a function"]
  ELSE LET base64Image == stripPrefix(body.image)
       IN  IF base64Image = <<>>
           THEN [kind |-> "throw", message |-> "The image data cannot be empty."]
           ELSE IF ~IsBase64(base64Image)
           THEN [kind |-> "throw",
                 message |-> "Image data is not a valid Base64 string."]
           ELSE [kind |-> "return", value |-> base64Image]

\* Variant: the origin header is sent with the preflight answer only.
corsOnPreflightOnly(method) ==
  IF method = "OPTIONS"
  THEN {"Access-Control-Allow-Origin", "Access-Control-Allow-Methods",
        "Access-Control-Allow-Headers", "Access-Control-Max-Age"}
  ELSE {}

\* part_003 88-96: the headers set for a request of this method.
cors(method) ==
  {"Access-Control-Allow-Origin"} \cup
    IF method = "OPTIONS"
    THEN {"Access-Control-Allow-Methods", "Access-Control-Allow-Headers",
          "Access-Control-Max-Age"}
    ELSE {}

\* A response: status, headers and payload, with what the handler did on the
\* way: whether it called validateRequest, and the images it gave to the
\* vision service.
Response(method, status, payload, validated, images) ==
  [status |-> status, headers |-> cors(method), payload |-> payload,
   validated |-> validated, images |-> images]

\* part_003 86-128: ocrHandler.
ocrHandler(req) ==
  IF req.method = "OPTIONS"
  THEN Response(req.method, 204, [kind |-> "empty"], FALSE, <<>>)
  ELSE IF req.method # "POST"
  THEN Response(req.method, 405, [kind |-> "notAllowed"], FALSE, <<>>)
  ELSE LET v == validateRequest(req.body)
       IN  IF v.kind = "throw"
           THEN Response(req.method, 500,
                         [kind |-> "failure", success |-> FALSE,
                          details |-> v.message], TRUE, <<>>)
           ELSE LET o == performOcr(v.value, req.vision)
                IN  IF o.kind = "throw"
                    THEN Response(req.method, 500,
                                  [kind |-> "failure", success |-> FALSE,
                                   details |-> o.message], TRUE, <<v.value>>)
                    ELSE Response(req.method, 200,
                                  [kind |-> "result", success |-> TRUE,
                                   text |-> o.value], TRUE, <<v.value>>)

Methods == {"OPTIONS", "POST", "GET", "DELETE"}

\* Request bodies: none, {}, an image that is not a string, and image strings:
\* empty, the prefix alone, base64 with and without prefix and padding, too
\* much padding, padding alone, a foreign character, a prefix in the middle.
Images ==
  {<<>>, <<DataUrlPrefix>>, <<"A", "A">>, <<DataUrlPrefix, "A", "A">>,
   <<"A", "=", "=">>, <<"A", "=", "=", "=">>, <<"=">>, <<"A", "@">>,
   <<"A", "=", "A">>, <<"A", DataUrlPrefix, "A">>}

Bodies ==
  {[kind |-> "none"], [kind |-> "noimage"], [kind |-> "nonstring"]}
    \cup {[kind |-> "image", image |-> im] : im \in Images}

\* fullTextAnnotation.text: up to MaxVisionLines lines, separated by line
\* breaks; Vision ends its text with a line break.
VisionLines == {<<>>, <<"a">>, <<"a", "b">>, <<" ", "b", "a", " ">>}

VisionTexts ==
  {Join(arr) : arr \in UNION {[1..n -> VisionLines] : n \in 1..MaxVisionLines}}
    \cup {<<"a", "b", "\n", "b", "a", "\n">>}

VisionResults ==
  {[kind |-> "throw", message |-> "7 PERMISSION_DENIED"], [kind |-> "none"]}
    \cup {[kind |-> "text", text |-> t] : t \in VisionTexts}

\* Requests: every method with every body, and a POST of a good image with
\* every answer of the vision service.
Requests ==
  {[method |-> m, body |-> b,
    vision |-> [kind |-> "text", text |-> <<"a", "b", "\n", "b", "a", "\n">>]] :
     m \in Methods, b \in Bodies}
    \cup {[method |-> "POST",
           body |-> [kind |-> "image", image |-> <<DataUrlPrefix, "A", "A">>],
           vision |-> v] : v \in VisionResults}

OcrHandlerCalls ==
  {[NoCall EXCEPT !.fn = "ocrHandler", !.arg = r] : r \in Requests}

\* No scan runs; one call is about to be made.
CallInit ==
  /\ call \in Calls \cup OcrHandlerCalls
  /\ hook = IdleHook
  /\ ocrLines = <<>>
  /\ bookResult = NullBook
  /\ isLoading = FALSE
  /\ aiStatus = ""
  /\ error = Null
  /\ nStarted = 0
  /\ pc = [s \in Scans |-> "idle"]
  /\ i = [s \in Scans |-> 0]
  /\ bookData = [s \in Scans |-> NoData]
  /\ log = [s \in Scans |-> NoLog]

Return(value) ==
  /\ ~call.returned
  /\ call' = [call EXCEPT !.returned = TRUE, !.ret = value]
  /\ UNCHANGED <<state, nStarted, pc, i, bookData, log, hook>>

\* BookScanner.tsx 52-54 on data.text.
CallLines == call.fn = "lines" /\ Return(lines(call.arg))

\* part_002 68-86 on the reply of the inference request.
CallFetchBookData == call.fn = "fetchBookData" /\ Return(bookDataOf(call.arg))

\* part_002 15-29 on the outcome of the heartbeat request.
CallTestAI ==
  call.fn = "testAI" /\ Return(testAICatch(testAITry(call.arg)))

\* part_003 86-128 on a request.
CallOcrHandler == call.fn = "ocrHandler" /\ Return(ocrHandler(call.arg))

CallNext == CallLines \/ CallFetchBookData \/ CallTestAI \/ CallOcrHandler

CallSpec == CallInit /\ [][CallNext]_vars

(***************************************************************************)
(* The hook useBookScanner (src/unnamed/part_001 1-145).                   *)
(***************************************************************************)
\* Variant: the effect returns no cleanup, so a timer outlives its title.
effectWithoutCleanup(timers, title) ==
  timers \cup (IF title # <<>> THEN {title} ELSE {})

\* part_001 19-54: the effect on [title].  React runs the cleanup of the
\* previous run (clearTimeout) and then the effect, which sets a timer unless
\* the title is empty.
effect(timers, title) == IF title # <<>> THEN {title} ELSE {}

\* setTitle(t): a new value renders and re-runs the effect; the same value
\* does neither.
setTitle(h, t) ==
  IF t = h.title THEN h
  ELSE [h EXCEPT !.title = t,
                 !.timers = effect(h.timers, t),
                 !.cancelled = @ + Cardinality(h.timers \ effect(h.timers, t))]

\* Variant: fetchBookData as the hook expects it, taking the title.
joinAccepted(arg) == [kind |-> "return"]

\* part_002 48: ocrLines.join("\n") in the prompt, outside the try block:
\* an array is joined, a string has no join and the call throws.
join(arg) ==
  IF arg.kind = "array" THEN [kind |-> "return"]
  ELSE [kind |-> "throw", message |-> "ocrLines.join is not a function"]

\* What fetchBookData resolves to when it gets as far as its request.
FetchedData ==
  {[found |-> FALSE, bookData |-> NoData],
   [found |-> TRUE, bookData |-> [title |-> <<"T">>, coverUri |-> Undefined]],
   [found |-> TRUE,
    bookData |-> [title |-> <<>>, coverUri |-> <<"https:", "//books/t">>]]}

\* encodeURIComponent on the atoms of a title.
encodeURIComponent(str) ==
  [k \in 1..Len(str) |-> IF str[k] = " " THEN "%20" ELSE str[k]]

\* part_001 28-45: the callback of the timer once fetchBookData has resolved.
onFetched(h, title, fetchedData) ==
  LET finalTitle ==
        IF fetchedData.found /\ fetchedData.bookData.title # <<>>
        THEN fetchedData.bookData.title
        ELSE title
      cover ==
        IF fetchedData.found /\ fetchedData.bookData.coverUri # Undefined
        THEN fetchedData.bookData.coverUri
        ELSE h.coverUri
  IN  setTitle([h EXCEPT
                  !.coverUri = cover,
                  !.bookDataUrl = <<"https://www.google.com/search?q=">>
                                    \o encodeURIComponent(finalTitle)],
               finalTitle)

HookUnchanged == UNCHANGED <<state, nStarted, pc, i, bookData, log, call>>

\* part_001 22-51: a debounce timer fires.  Its callback clears the error and
\* calls fetchBookData with the title it closed over.
TimerFires ==
  /\ \E title \in hook.timers :
       LET h == [hook EXCEPT !.timers = @ \ {title},
                             !.error = Null,
                             !.fetched = @ + 1,
                             !.lastArg = title]
       IN  IF join([kind |-> "string", value |-> title]).kind = "throw"
           THEN hook' = h
           ELSE \E fetchedData \in FetchedData :
                  hook' = onFetched(h, title, fetchedData)
  /\ HookUnchanged

\* part_001 62-86: handleScanCover of the hook, up to readAsDataURL.
hookHandleScanCover(file) ==
  IF file = "none"
  THEN UNCHANGED vars
  ELSE /\ hook.started < MaxScans
       /\ hook' = [setTitle(hook, <<>>) EXCEPT
                     !.coverUri = NullUrl,
                     !.bookDataUrl = NullUrl,
                     !.error = Null,
                     !.isLoading = TRUE,
                     !.started = @ + 1,
                     !.pc[hook.started + 1] = "reading"]
       /\ HookUnchanged

\* part_001 120-125: the catch block and the finally block.
hookCatch(h, s, message) ==
  [h EXCEPT !.error = "OCR processing failed: " \o message,
            !.isLoading = FALSE,
            !.pc[s] = "done"]

\* part_001 82: reader.onerror rejects with the event, which has no message.
HookReaderOnerror(s) ==
  /\ hook.pc[s] = "reading"
  /\ hook' = hookCatch(hook, s, "undefined")
  /\ HookUnchanged

\* part_001 76-100: reader.onload resolves and the OCR request is sent.
HookReaderOnload(s) ==
  /\ hook.pc[s] = "reading"
  /\ hook' = [hook EXCEPT !.pc[s] = "ocr"]
  /\ HookUnchanged

\* Texts of an OCR reply to the hook: none, blank, and two titles, one padded.
HookTexts == {<<>>, <<" ">>, <<"X">>, <<" ", "Y", " ", "Z", " ">>}

\* The OCR request of the hook: fetch rejects, the status is not ok, json()
\* rejects, or the body is a payload with a text.
HookOcrReplies ==
  {[kind |-> "throw", message |-> "Failed to fetch"],
   [kind |-> "notOk", message |-> "HTTP 500: {\"success\":false}"],
   [kind |-> "throw", message |-> "Unexpected token"]}
    \cup {[kind |-> "data", text |-> t] : t \in HookTexts}

\* part_001 96-125: the OCR reply.
HookOcrResponse(s) ==
  /\ hook.pc[s] = "ocr"
  /\ \E reply \in HookOcrReplies :
       IF reply.kind \in {"throw", "notOk"}
       THEN hook' = hookCatch(hook, s, reply.message)
       ELSE IF reply.text # <<>>
       THEN hook' = [setTitle([hook EXCEPT !.fetched = 0], Trim(reply.text))
                       EXCEPT !.isLoading = FALSE, !.pc[s] = "done"]
       ELSE hook' =
              [hook EXCEPT
                 !.error = "No Hebrew text detected. Please ensure the title is centered and clear.",
                 !.isLoading = FALSE,
                 !.pc[s] = "done"]
  /\ HookUnchanged

HookNext ==
  \/ \E file \in Files : hookHandleScanCover(file)
  \/ \E s \in Scans : HookReaderOnerror(s)
  \/ \E s \in Scans : HookReaderOnload(s)
  \/ \E s \in Scans : HookOcrResponse(s)
  \/ TimerFires

HookSpec == Init /\ [][HookNext]_vars

(***************************************************************************)
(* Properties.                                                             *)
(***************************************************************************)
\* C1: a scan whose text extraction failed (the OCR request threw, the payload
\* was not a success, or it had no text) has called testAI, fetchBookData and
\* fetchCoverWithRetry zero times and has sent the OCR request only.
C1_NoClientCallAfterFailedExtraction ==
  \A s \in Scans :
    log[s].extractFailed =>
      /\ log[s].testAI = 0
      /\ log[s].fetchBookData = 0
      /\ log[s].fetchCoverWithRetry = 0
      /\ log[s].requests = 1

C1_Witness ==
  \E s \in Scans : log[s].extractFailed /\ log[s].finished /\ log[s].requests = 1

\* C2: a scan that has recorded an error has ended; it takes no further step,
\* sends no further request and enters no further stage; and error goes from
\* a message back to null only in a step that starts a new scan.
C2_ErrorIsFinal ==
  [][/\ \A s \in Scans :
          log[s].errored =>
            /\ pc[s] = "done"
            /\ pc'[s] = "done"
            /\ log'[s].requests <= log[s].requests
            /\ Len(log'[s].stages) <= Len(log[s].stages)
     /\ (error # Null /\ error' = Null) => nStarted' = nStarted + 1]_vars

C2_Witness ==
  /\ error # Null
  /\ \E s \in Scans : log[s].errored /\ \E t \in Scans : Running(t)

\* C3 (as claimed): a scan whose inference request threw, had no text or had
\* text that is not JSON ends with error set and presents no record.
C3_InferenceFailureSetsError ==
  \A s \in Scans :
    (log[s].inferFailed /\ log[s].finished) =>
      /\ log[s].errored
      /\ error # Null
      /\ log[s].presented = NullBook

\* C4 (as claimed): a scan that finishes with an inferred record whose title is
\* absent or empty presents the placeholder record, and sets no error.
C4_NoTitleGivesPlaceholder ==
  \A s \in Scans :
    (/\ log[s].finished
     /\ log[s].inferred # NoData
     /\ titleQuery(log[s].inferred) = "") =>
      /\ log[s].presented = Placeholder
      /\ ~log[s].errored

Order == <<"encode", "extract", "probe", "infer", "cover">>

StageOf(op) ==
  CASE op \in {"read", "decode"} -> "encode"
    [] op = "ocr" -> "extract"
    [] op = "probe" -> "probe"
    [] op = "infer" -> "infer"
    [] op \in {"cover", "backoff"} -> "cover"

\* C6: the stages a scan has entered are an initial part of encode, extract,
\* probe, infer, cover (so none is entered twice or out of order); the scan
\* waits for at most one operation, and that operation belongs to the stage
\* entered last.
C6_StagesInOrder ==
  \A s \in Scans :
    LET st == log[s].stages
    IN  /\ Len(st) <= Len(Order)
        /\ st = SubSeq(Order, 1, Len(st))
        /\ Cardinality(log[s].outstanding) <= 1
        /\ \A op \in log[s].outstanding :
             st # <<>> /\ StageOf(op) = st[Len(st)]

C6_Witness ==
  \E s \in Scans :
    /\ log[s].stages = Order
    /\ log[s].finished
    /\ Len(log[s].responses) = retries

\* C7 (as claimed): with every operation a scan waits for completing, every
\* scan that was started and has not ended does end, and isLoading is false
\* when it ends.
C7_EveryScanEnds ==
  \A s \in Scans :
    (pc[s] \notin {"idle", "done"}) ~>
      (pc[s] = "done" /\ log[s].finished /\ ~isLoading)

\* C8 (as claimed): once the image of a scan has failed to decode, the scan
\* has ended with error set and isLoading false, and has sent no request.
C8_DecodeFailureSetsError ==
  \A s \in Scans :
    (log[s].decodeFailed /\ log[s].outstanding = {}) =>
      /\ log[s].errored
      /\ log[s].finished
      /\ error # Null
      /\ ~isLoading
      /\ log[s].requests = 0

\* Every request of the cover lookup of scan s was answered with status 429.
All429(s) ==
  \A k \in 1..Len(log[s].responses) : log[s].responses[k] = "status429"

CoverFailed(s) ==
  /\ log[s].result.kind # "none"
  /\ \A k \in 1..Len(log[s].responses) : log[s].responses[k] # "data"

\* C10: when the cover lookup of a scan has ended without a data response
\* (every request was answered with 429 or failed), the scan has finished
\* without an error of its own and the record it presents, which is the record
\* shown, has every inferred field unchanged and no cover; and if no other
\* scan was running meanwhile, error is null.
C10_CoverFailureKeepsRecord ==
  \A s \in Scans :
    CoverFailed(s) =>
      /\ log[s].finished
      /\ ~log[s].errored
      /\ DOMAIN log[s].presented = DOMAIN log[s].inferred \cup {"coverUri"}
      /\ \A f \in DOMAIN log[s].inferred :
           log[s].presented[f] = log[s].inferred[f]
      /\ log[s].presented.coverUri = Undefined
      /\ bookResult = log[s].presented
      /\ ~log[s].overlapped => error = Null

C10_Witness ==
  \E s \in Scans :
    /\ CoverFailed(s)
    /\ "throw" \in {log[s].responses[k] : k \in 1..Len(log[s].responses)}
    /\ "title" \in DOMAIN log[s].presented

\* The requests the cover lookup of scan s has sent: the OCR request, the
\* heartbeat and the inference request came before them.
CoverRequests(s) ==
  IF log[s].fetchCoverWithRetry = 0 THEN 0 ELSE log[s].requests - 3

\* C11 (as claimed): a cover lookup sends at least one and at most retries
\* requests, and a response from the server that is not a 429 (with or
\* without a readable body) is the last one: the lookup has ended with it and
\* has sent no request after it.
C11_FirstNon429EndsLookup ==
  \A s \in Scans :
    log[s].fetchCoverWithRetry = 1 =>
      /\ CoverRequests(s) >= 1
      /\ CoverRequests(s) <= retries
      /\ \A k \in 1..Len(log[s].responses) :
           log[s].responses[k] \in {"badbody", "data"} =>
             /\ k = Len(log[s].responses)
             /\ CoverRequests(s) = k
             /\ log[s].result.kind # "none"

\* C12 (as claimed): OCR, heartbeat and inference requests are sent once each,
\* and a cover request that was not answered with status 429 (it threw, or its
\* body could not be read, or it had a body) is the last request of the scan.
C12_ReissueOnlyAfter429 ==
  \A s \in Scans :
    /\ log[s].fetchCoverWithRetry = 0 => log[s].requests <= 3
    /\ log[s].requests - CoverRequests(s) <= 3
    /\ \A k \in 1..Len(log[s].responses) :
         log[s].responses[k] # "status429" => CoverRequests(s) = k

\* C13 (as claimed): a scan whose OCR payload is a success but whose text
\* leaves no line after splitting, trimming and dropping lines of length <= 1
\* has ended with the error "No text detected." and has called none of testAI,
\* fetchBookData and fetchCoverWithRetry.
C13_NoLinesIsNoText ==
  \A s \in Scans :
    log[s].noLines =>
      /\ log[s].finished
      /\ log[s].errored
      /\ error = "No text detected."
      /\ log[s].testAI = 0
      /\ log[s].fetchBookData = 0
      /\ log[s].fetchCoverWithRetry = 0

\* C14 (as claimed): a scan whose OCR payload reports success = false (the
\* body the handler sends with status 500) has ended with an error message
\* that is not the message of the no-text outcome.
C14_ServiceFailureIsNotNoText ==
  \A s \in Scans :
    log[s].refused =>
      /\ log[s].finished
      /\ log[s].errored
      /\ error # Null
      /\ error # "No text detected."

\* The text cut at its line breaks, by position: BreakAt(text, j) is the
\* position of the j-th line break, 0 before the first line and Len + 1 after
\* the last.
NumBreaks(text) == Cardinality({p \in 1..Len(text) : text[p] = "\n"})

BreakAt(text, j) ==
  IF j = 0 THEN 0
  ELSE IF j > NumBreaks(text) THEN Len(text) + 1
  ELSE CHOOSE p \in 1..Len(text) :
         /\ text[p] = "\n"
         /\ Cardinality({q \in 1..p : text[q] = "\n"}) = j

RawLine(text, j) == SubSeq(text, BreakAt(text, j - 1) + 1, BreakAt(text, j) - 1)

\* A line without the blanks before its first and after its last character.
Stripped(l) ==
  LET ink == {p \in 1..Len(l) : l[p] # " "}
  IN  IF ink = {} THEN <<>>
      ELSE SubSeq(l, CHOOSE p \in ink : \A q \in ink : p <= q,
                     CHOOSE p \in ink : \A q \in ink : p >= q)

\* The numbers of the lines of the text that are longer than one character
\* once stripped.
Kept(text) ==
  {j \in 1..(NumBreaks(text) + 1) : Len(Stripped(RawLine(text, j))) > 1}

\* C15: the line list of a text has one entry per line of the text that is
\* longer than one character once trimmed, each equal to that trimmed line,
\* in the order of the text: so no blank or one-character line is in it and no
\* longer line is missing or moved.
C15_LinesAreTheLongLinesInOrder ==
  (call.fn = "lines" /\ call.returned) =>
    LET text == call.arg
        out == call.ret
    IN  /\ Len(out) = Cardinality(Kept(text))
        /\ \A m \in 1..Len(out) :
             \E j \in Kept(text) :
               /\ Cardinality({h \in Kept(text) : h <= j}) = m
               /\ out[m] = Stripped(RawLine(text, j))
        /\ \A m \in 1..Len(out) : Len(out[m]) > 1

C15_Witness ==
  /\ call.fn = "lines"
  /\ call.returned
  /\ call.arg = Join(<<<<" ", "a", "b", " ">>, <<"a">>, <<"b", "a">>>>)
  /\ call.ret = <<<<"a", "b">>, <<"b", "a">>>>

\* A text that is exactly one JSON value.
ValidJson(str) == Len(str) = 1 /\ str[1] \in DOMAIN JsonObjects \cup {"null"}

\* C16: for a reply whose text is empty, or is not one JSON value once the
\* fence markers are stripped and it is trimmed, fetchBookData returns
\* undefined without reaching its cover lookup: no record, however partial.
C16_BadReplyYieldsUndefined ==
  (/\ call.fn = "fetchBookData"
   /\ call.returned
   /\ call.arg.kind = "data"
   /\ call.arg.text = <<>> \/ ~ValidJson(cleanJson(call.arg.text))) =>
    /\ ~call.ret.found
    /\ call.ret.bookData = NoData

C16_Witness ==
  /\ call.fn = "fetchBookData"
  /\ call.returned
  /\ call.arg.kind = "data"
  /\ call.arg.text = <<"{T}", "x">>
  /\ ~call.ret.found

\* C17: a JSON object text between an opening fence line with the word json
\* and a closing fence is parsed to the record the object text alone is
\* parsed to, which is the object.
C17_FencedParsesAsBare ==
  \A J \in DOMAIN JsonObjects :
    (/\ call.fn = "fetchBookData"
     /\ call.returned
     /\ call.arg.kind = "data"
     /\ call.arg.text = Fenced(J)) =>
      /\ call.ret = bookDataOf([kind |-> "data", text |-> <<J>>])
      /\ call.ret.found
      /\ call.ret.bookData = JsonObjects[J]

C17_Witness ==
  /\ call.fn = "fetchBookData"
  /\ call.returned
  /\ call.arg.kind = "data"
  /\ call.arg.text = Fenced("{T}")
  /\ call.ret.found
  /\ call.ret.bookData.title = "T"

\* C18: once the inference of a scan has given a record, fetchCoverWithRetry
\* has been called once, with the title of the record (the empty string when
\* it has none) as its argument; and when the scan has finished, the record
\* it presents has the title of the inferred record, or none if that has none.
C18_TitleIsTheQuery ==
  \A s \in Scans :
    log[s].inferred # NoData =>
      /\ log[s].fetchCoverWithRetry = 1
      /\ log[s].query = IF "title" \in DOMAIN log[s].inferred
                        THEN log[s].inferred.title
                        ELSE ""
      /\ log[s].finished =>
           IF "title" \in DOMAIN log[s].inferred
           THEN /\ "title" \in DOMAIN log[s].presented
                /\ log[s].presented.title = log[s].inferred.title
           ELSE "title" \notin DOMAIN log[s].presented

C18_Witness ==
  \E s \in Scans :
    /\ log[s].finished
    /\ log[s].fetchCoverWithRetry = 1
    /\ log[s].query = "T"
    /\ log[s].presented.title = "T"

\* C19: for every outcome of its request (fetch rejects, the body cannot be
\* read, the body has no candidate text, the body has text) testAI returns,
\* and what it returns is a string.
C19_TestAIReturnsAString ==
  (call.fn = "testAI" /\ call.returned) =>
    /\ call.ret.kind = "return"
    /\ call.ret.value \in STRING

C19_Witness ==
  /\ call.fn = "testAI"
  /\ call.returned
  /\ call.arg.kind = "throw"
  /\ call.arg.message = "Unexpected token"
  /\ call.ret = [kind |-> "return", value |-> "AI Offline: Unexpected token"]

\* The strings that say the AI is offline and embed an error.
OfflineStrings ==
  {"AI Offline: " \o m :
     m \in {"Failed to fetch", "Unexpected token", "No response",
            "No candidates"}}

\* C20 (as claimed): testAI returns the text of the reply when the reply has
\* text, and in every other case, a reply without candidate text included, a
\* string that says the AI is offline and embeds an error.
C20_TextOrOfflineString ==
  (call.fn = "testAI" /\ call.returned) =>
    /\ call.ret.kind = "return"
    /\ IF call.arg.kind = "data" /\ call.arg.text # ""
       THEN call.ret.value = call.arg.text
       ELSE call.ret.value \in OfflineStrings

\* Scan s has been started, is not stuck at an image that cannot be decoded,
\* and no other scan ran at any time during it.
Alone(s) == log[s].stages # <<>> /\ ~log[s].overlapped /\ pc[s] # "hung"

\* C21: a scan that does not overlap another one has, until its first
\* request is sent, every session field cleared (no lines, no record, no
\* liveness string, no error); and when it has finished, the record shown is
\* the one it presented (none if it presented none), an error is shown exactly
\* if it set one, and lines and liveness string are shown only if it stored
\* them: nothing of an earlier scan is left.
C21_EachScanStartsClean ==
  \A s \in Scans :
    Alone(s) =>
      /\ (log[s].requests = 0 /\ ~log[s].finished) =>
           /\ ocrLines = <<>>
           /\ bookResult = NullBook
           /\ aiStatus = ""
           /\ error = Null
      /\ log[s].finished =>
           /\ bookResult = log[s].presented
           /\ (error # Null) <=> log[s].errored
           /\ ocrLines # <<>> => log[s].testAI = 1
           /\ aiStatus # "" => log[s].testAI = 1

C21_Witness ==
  /\ nStarted = 2
  /\ Alone(2)
  /\ log[2].finished
  /\ log[2].extractFailed
  /\ bookResult = NullBook
  /\ ocrLines = <<>>
  /\ aiStatus = ""

\* C25 (as claimed): in a cover lookup that has ended, the backoff waits are
\* fewer than the requests sent: no wait follows the last request.
C25_NoWaitAfterLastAttempt ==
  \A s \in Scans :
    log[s].result.kind # "none" => log[s].waits < CoverRequests(s)

C28_ErrorOrRecord ==
  \A s \in Scans :
    Alone(s) =>
      /\ ~(error # Null /\ bookResult # NullBook)
      /\ log[s].finished => (error # Null \/ bookResult # NullBook)
      /\ bookResult # NullBook =>
           /\ log[s].finished
           /\ log[s].testAI = 1
           /\ log[s].fetchBookData = 1
           /\ SubSeq(Order, 1, 4) = SubSeq(log[s].stages, 1, 4)

C28_Witness ==
  \E s \in Scans :
    /\ Alone(s)
    /\ log[s].finished
    /\ bookResult = Placeholder
    /\ error = Null

\* C29: a step in which the heartbeat of a scan returns takes the scan to the
\* inference request, which it sends then, whatever string the heartbeat
\* returned; the step sets no error, leaves isLoading alone and does not end
\* the scan.
C29_ProbeNeverGates ==
  [][\A s \in Scans :
       (pc[s] = "probe" /\ pc'[s] # "probe") =>
         /\ pc'[s] = "infer"
         /\ log'[s].fetchBookData = log[s].fetchBookData + 1
         /\ log'[s].requests = log[s].requests + 1
         /\ ~log'[s].errored
         /\ ~log'[s].finished
         /\ error' = error
         /\ isLoading' = isLoading]_vars

C29_Witness ==
  \E s \in Scans :
    /\ Alone(s)
    /\ pc[s] = "infer"
    /\ aiStatus = "AI Status: AI Offline: Failed to fetch"
    /\ log[s].fetchBookData = 1
    /\ error = Null
    /\ isLoading

\* C22: ocrHandler answers OPTIONS with 204 and every method other than POST
\* and OPTIONS with 405, in both cases without calling validateRequest or the
\* vision service; and every response, whatever its status, has the header
\* Access-Control-Allow-Origin.
C22_PreflightAndMethodCheck ==
  (call.fn = "ocrHandler" /\ call.returned) =>
    /\ "Access-Control-Allow-Origin" \in call.ret.headers
    /\ call.arg.method = "OPTIONS" => call.ret.status = 204
    /\ call.arg.method \notin {"OPTIONS", "POST"} => call.ret.status = 405
    /\ call.arg.method # "POST" =>
         /\ ~call.ret.validated
         /\ call.ret.images = <<>>

C22_Witness ==
  /\ call.fn = "ocrHandler"
  /\ call.returned
  /\ call.arg.method = "DELETE"
  /\ call.arg.body = [kind |-> "image", image |-> <<"A", "A">>]
  /\ call.ret.status = 405
  /\ "Access-Control-Allow-Origin" \in call.ret.headers

\* A body with image data that is a base64 string, with or without the
\* data-URL prefix: one or more base64 characters and at most two padding
\* characters after them.
WellFormed(body) ==
  /\ body.kind = "image"
  /\ \E data \in {<<"A", "A">>, <<"A", "=", "=">>} :
       body.image \in {data, <<DataUrlPrefix>> \o data}

\* C23: a POST whose body is not well formed is answered with status 500 and
\* success = false, and the vision service is not called; and whatever the
\* request, the vision service is called at most once, with image data that is
\* a base64 string without prefix.
C23_MalformedBodyIs500 ==
  (call.fn = "ocrHandler" /\ call.returned) =>
    /\ (call.arg.method = "POST" /\ ~WellFormed(call.arg.body)) =>
         /\ call.ret.status = 500
         /\ call.ret.payload.kind = "failure"
         /\ ~call.ret.payload.success
         /\ call.ret.images = <<>>
    /\ Len(call.ret.images) <= 1
    /\ \A k \in 1..Len(call.ret.images) :
         call.ret.images[k] \in {<<"A", "A">>, <<"A", "=", "=">>}

C23_Witness ==
  /\ call.fn = "ocrHandler"
  /\ call.returned
  /\ call.arg.method = "POST"
  /\ call.arg.body = [kind |-> "image", image |-> <<"A", "@">>]
  /\ call.ret.status = 500
  /\ call.ret.payload.details = "Image data is not a valid Base64 string."

\* The m-th of the lines of the text that are longer than one character once
\* stripped.
NthKept(text, m) ==
  CHOOSE j \in Kept(text) : Cardinality({h \in Kept(text) : h <= j}) = m

\* C30: the text of a success response is the first three (or fewer, if
\* there are fewer) lines of the vision text that are longer than one
\* character once trimmed, in order, with one space between them, trimmed; it
\* has no line break, and the line list the client makes of it has at most
\* one element.
C30_AtMostThreeLinesOnOneLine ==
  (/\ call.fn = "ocrHandler"
   /\ call.returned
   /\ call.ret.status = 200
   /\ call.arg.vision.kind = "text") =>
    LET src == call.arg.vision.text
        out == call.ret.payload.text
        n == IF Cardinality(Kept(src)) < 3 THEN Cardinality(Kept(src)) ELSE 3
    IN  /\ out = Trim(JoinWith([m \in 1..n |-> RawLine(src, NthKept(src, m))],
                               " "))
        /\ \A k \in 1..Len(out) : out[k] # "\n"
        /\ Len(lines(out)) <= 1

C30_Witness ==
  /\ call.fn = "ocrHandler"
  /\ call.returned
  /\ call.ret.status = 200
  /\ call.arg.vision.kind = "text"
  /\ call.arg.vision.text =
       Join(<<<<"a", "b">>, <<"a">>, <<" ", "b", "a", " ">>, <<"a", "b">>>>)
  /\ call.ret.payload.text = <<"a", "b", " ", " ", "b", "a", " ", " ", "a", "b">>

C26_FetchOnlyForSettledTitle ==
  [][/\ \A t \in hook.timers : t = hook.title /\ t # <<>>
     /\ hook'.title # hook.title => hook.title \notin hook'.timers
     /\ hook'.fetched > hook.fetched =>
          /\ hook.title \in hook.timers
          /\ hook'.lastArg = hook.title
          /\ hook.title # <<>>]_vars

C26_Witness ==
  /\ hook.cancelled = 1
  /\ hook.timers = {}
  /\ hook.title = <<>>
  /\ hook.lastArg = <<>>
  /\ hook.fetched = 0
  /\ hook.isLoading
====
